---- MODULE Spec2Model ----
(***************************************************************************)
(* Asynchronous generation tasks of web_app.py: the process-wide task      *)
(* table TASKS, the worker thread run_ai_task with its per-step progress   *)
(* callback, and the three endpoints /generate_ai, /progress/<id> and      *)
(* /cancel/<id>.  Every read or write of TASKS by a thread is one step, so *)
(* the interleavings of a worker with the endpoints are those the          *)
(* interpreter can produce.                                                *)
(***************************************************************************)
EXTENDS Integers, Sequences, FiniteSets, TLC

\* Number of task ids that can be submitted in one run.
MaxTasks == 2

\* steps handed to the collaborator as num_inference_steps: 40 for the
\* 'hidden' readability preset, 35 for the two others (web_app.py:1243,
\* 1257, 1261), scaled down to keep the state space finite and small.
StepsHidden == 3
StepsOther == 2

\* 'total' of a freshly inserted record (web_app.py:1377).
InitialTotal == 30

TaskIds == 1..MaxTasks

\* Number of POST /generate requests served in one run, each on its own thread.
MaxRequests == 2

RequestIds == 1..MaxRequests

\* Number of threads that call ai_engine.generate in one run.
MaxThreads == 2

ThreadIds == 1..MaxThreads

Readabilities == {"hidden", "balanced", "scannable"}

None == "None"

VARIABLES
    TASKS,        \* task id -> record, the global dict of web_app.py:26
    pc,           \* position of the worker thread of each task id
    steps,        \* local 'steps' of each worker, 0 until the preset branch has run
    cbStep,       \* 'step' argument of the latest progress_callback call, -1 before the first
    firstCancel,  \* history: when the first cancel request for the id was made
    lastQuery,    \* history: the latest reply of /progress
    call,         \* arguments of the synchronous function under study
    ret,          \* what that function returned, once it has run
    blendFailed,  \* history: ids whose worker caught a failure of the blend step
    RESULT_CACHE, \* fingerprint -> artifact, the global dict of web_app.py:21
    req,          \* the request threads of POST /generate: position and locals
    pipe,         \* ai_engine.pipe of the model singleton
    current_mode, \* ai_engine.current_mode
    thr           \* the threads inside ai_engine.generate: position and mode

vars == <<TASKS, pc, steps, cbStep, firstCancel, lastQuery, call, ret, blendFailed, RESULT_CACHE, req, pipe, current_mode, thr>>

Terminal == {"completed", "failed", "cancelled"}

\* steps as chosen in run_ai_task from the readability preset.
StepsFor(r) == IF r = "hidden" THEN StepsHidden ELSE StepsOther

\* Percent with the quotient rounded to the nearest integer instead of truncated.
Percent_Rounded(current_step, total) ==
    (2 * current_step * 100 + total) \div (2 * total)

\* percent = int((current_step / total) * 100).  The quotient is a double and
\* int() truncates; for every total below 50 the result is the integer
\* quotient of 100 * current_step by total.
Percent(current_step, total) == (current_step * 100) \div total

\* NewTask with the record born 'completed'.
NewTask_Completed ==
    [status |-> "completed", progress |-> 0, step |-> 0, total |-> InitialTotal,
     result |-> None, error |-> None]

\* The record inserted by generate_ai_endpoint.
NewTask ==
    [status |-> "pending", progress |-> 0, step |-> 0, total |-> InitialTotal,
     result |-> None, error |-> None]

\* The process after import: TASKS = {}, no worker, no request answered.
NoTasks ==
    /\ TASKS = <<>>
    /\ pc = [t \in TaskIds |-> "unborn"]
    /\ steps = [t \in TaskIds |-> 0]
    /\ cbStep = [t \in TaskIds |-> -1]
    /\ firstCancel = [t \in TaskIds |-> "never"]
    /\ lastQuery = [id |-> 0, code |-> 0, task |-> NewTask]
    /\ blendFailed = {}
    /\ RESULT_CACHE = <<>>
    /\ req = [r \in RequestIds |-> [line |-> "idle"]]
    /\ pipe = None
    /\ current_mode = None
    /\ thr = [k \in ThreadIds |-> [line |-> "idle"]]

taskVars == <<TASKS, pc, steps, cbStep, firstCancel, lastQuery, blendFailed>>

serverVars == <<RESULT_CACHE, req, pipe, current_mode, thr>>

Init ==
    /\ NoTasks
    /\ call = [fn |-> "none"]
    /\ ret = [done |-> FALSE]

\* TASKS[t][field] = value
SetField(t, field, value) == [TASKS EXCEPT ![t][field] = value]

\* POST /generate_ai with a non-empty payload: a fresh id, the initial record
\* and a started worker thread.
Submit(t) ==
    /\ t \notin DOMAIN TASKS
    /\ TASKS' = TASKS @@ (t :> NewTask)
    /\ pc' = [pc EXCEPT ![t] = "start"]
    /\ UNCHANGED <<steps, cbStep, firstCancel, lastQuery, call, ret, blendFailed, serverVars>>

\* GET /progress/<id> for a known id: replies 200 with the record, changes
\* nothing.
Query(t) ==
    /\ t \in DOMAIN TASKS
    /\ lastQuery' = [id |-> t, code |-> 200, task |-> TASKS[t]]
    /\ UNCHANGED <<TASKS, pc, steps, cbStep, firstCancel, call, ret, blendFailed, serverVars>>

\* QueryUnknown with TASKS.setdefault(task_id, {...}) in place of TASKS.get.
QueryUnknown_Creates(t) ==
    /\ t \notin DOMAIN TASKS
    /\ TASKS' = TASKS @@ (t :> NewTask)
    /\ lastQuery' = [id |-> t, code |-> 200, task |-> NewTask]
    /\ UNCHANGED <<pc, steps, cbStep, firstCancel, call, ret, blendFailed, serverVars>>

\* GET /progress/<id> for an id that is not in TASKS: replies 404 with
\* {'error': 'Task not found'}.
QueryUnknown(t) ==
    /\ t \notin DOMAIN TASKS
    /\ lastQuery' = [id |-> t, code |-> 404, task |-> [error |-> "Task not found"]]
    /\ UNCHANGED <<TASKS, pc, steps, cbStep, firstCancel, call, ret, blendFailed, serverVars>>

\* CancelTable with TASKS.setdefault(task_id, {}) in place of the membership test.
CancelTable_Setdefault(table, id) ==
    IF id \in DOMAIN table
    THEN [table EXCEPT ![id].status = "cancelled"]
    ELSE table @@ (id :> [status |-> "cancelled"])

\* CancelTable that also resets the progress of the task.
CancelTable_ResetsProgress(table, id) ==
    IF id \in DOMAIN table
    THEN [table EXCEPT ![id].status = "cancelled", ![id].progress = 0]
    ELSE table

\* The task table after cancel_endpoint has run for id:
\* if task_id in TASKS: TASKS[task_id]['status'] = 'cancelled'
CancelTable(table, id) ==
    IF id \in DOMAIN table
    THEN [table EXCEPT ![id].status = "cancelled"]
    ELSE table

\* POST /cancel/<id> for a known id: overwrites the status.
Cancel(t) ==
    /\ t \in DOMAIN TASKS
    /\ TASKS' = CancelTable(TASKS, t)
    /\ firstCancel' = [firstCancel EXCEPT ![t] =
                         IF @ # "never" THEN @
                         ELSE IF cbStep[t] < 0 THEN "before_first_callback"
                         ELSE "after_first_callback"]
    /\ UNCHANGED <<pc, steps, cbStep, lastQuery, call, ret, blendFailed, serverVars>>

\* POST /cancel/<id> for an id that is not in TASKS: nothing is written.
CancelUnknown(t) ==
    /\ t \notin DOMAIN TASKS
    /\ TASKS' = CancelTable(TASKS, t)
    /\ UNCHANGED <<pc, steps, cbStep, firstCancel, lastQuery, call, ret, blendFailed, serverVars>>

\* run_ai_task up to the call of the collaborator: the control image is built
\* (which may raise), the branch on values.readability of the request sets
\* steps, then TASKS[task_id]['total'] = steps.
SetTotal(t, r) ==
    /\ pc[t] = "start"
    /\ steps' = [steps EXCEPT ![t] = StepsFor(r)]
    /\ TASKS' = SetField(t, "total", StepsFor(r))
    /\ pc' = [pc EXCEPT ![t] = "generate"]
    /\ UNCHANGED <<cbStep, firstCancel, lastQuery, call, ret, blendFailed, serverVars>>

SetupRaises(t) ==
    /\ pc[t] = "start"
    /\ pc' = [pc EXCEPT ![t] = "except_exception"]
    /\ UNCHANGED <<TASKS, steps, cbStep, firstCancel, lastQuery, call, ret, blendFailed, serverVars>>

\* ai_engine.generate before the pipeline runs: load_model and the resize.
EnterPipe(t) ==
    /\ pc[t] = "generate"
    /\ pc' = [pc EXCEPT ![t] = "pipe"]
    /\ UNCHANGED <<TASKS, steps, cbStep, firstCancel, lastQuery, call, ret, blendFailed, serverVars>>

LoadRaises(t) ==
    /\ pc[t] = "generate"
    /\ pc' = [pc EXCEPT ![t] = "except_exception"]
    /\ UNCHANGED <<TASKS, steps, cbStep, firstCancel, lastQuery, call, ret, blendFailed, serverVars>>

\* CallbackCheck without the test of the status.
CallbackCheck_NoTest(t) ==
    /\ pc[t] = "pipe"
    /\ cbStep[t] + 1 < steps[t]
    /\ cbStep' = [cbStep EXCEPT ![t] = @ + 1]
    /\ pc' = [pc EXCEPT ![t] = "callback_step"]
    /\ UNCHANGED <<TASKS, steps, firstCancel, lastQuery, call, ret, blendFailed, serverVars>>

\* The pipeline calls callback(step, ...) for step = 0 .. steps-1 in order
\* (callback_steps = 1).  The callback first reads the status: 'cancelled'
\* raises InterruptedError, which generate re-raises to the worker.
CallbackCheck(t) ==
    /\ pc[t] = "pipe"
    /\ cbStep[t] + 1 < steps[t]
    /\ cbStep' = [cbStep EXCEPT ![t] = @ + 1]
    /\ pc' = [pc EXCEPT ![t] =
                IF TASKS[t].status = "cancelled" THEN "except_interrupted"
                ELSE "callback_step"]
    /\ UNCHANGED <<TASKS, steps, firstCancel, lastQuery, call, ret, blendFailed, serverVars>>

\* CallbackWriteStep with current_step = step + 2.
CallbackWriteStep_OffByOne(t) ==
    /\ pc[t] = "callback_step"
    /\ TASKS' = SetField(t, "step", cbStep[t] + 2)
    /\ pc' = [pc EXCEPT ![t] = "callback_progress"]
    /\ UNCHANGED <<steps, cbStep, firstCancel, lastQuery, call, ret, blendFailed, serverVars>>

\* TASKS[task_id]['step'] = current_step
CallbackWriteStep(t) ==
    /\ pc[t] = "callback_step"
    /\ TASKS' = SetField(t, "step", cbStep[t] + 1)
    /\ pc' = [pc EXCEPT ![t] = "callback_progress"]
    /\ UNCHANGED <<steps, cbStep, firstCancel, lastQuery, call, ret, blendFailed, serverVars>>

\* TASKS[task_id]['progress'] = percent
CallbackWriteProgress(t) ==
    /\ pc[t] = "callback_progress"
    /\ TASKS' = SetField(t, "progress", Percent(cbStep[t] + 1, TASKS[t].total))
    /\ pc' = [pc EXCEPT ![t] = "pipe"]
    /\ UNCHANGED <<steps, cbStep, firstCancel, lastQuery, call, ret, blendFailed, serverVars>>

\* The pipeline raises between two callbacks.
PipeRaises(t) ==
    /\ pc[t] = "pipe"
    /\ pc' = [pc EXCEPT ![t] = "except_exception"]
    /\ UNCHANGED <<TASKS, steps, cbStep, firstCancel, lastQuery, call, ret, blendFailed, serverVars>>

\* The collaborator raises an InterruptedError of its own (OSError with errno
\* EINTR), which generate re-raises to the worker like any other exception.
PipeRaisesInterrupted(t) ==
    /\ pc[t] = "pipe"
    /\ pc' = [pc EXCEPT ![t] = "except_interrupted"]
    /\ UNCHANGED <<TASKS, steps, cbStep, firstCancel, lastQuery, call, ret, blendFailed, serverVars>>

\* The pipeline returns its image after the last step.
PipeReturns(t) ==
    /\ pc[t] = "pipe"
    /\ cbStep[t] + 1 = steps[t]
    /\ pc' = [pc EXCEPT ![t] = "returned"]
    /\ UNCHANGED <<TASKS, steps, cbStep, firstCancel, lastQuery, call, ret, blendFailed, serverVars>>

\* if final_img is None: raise Exception(...)
PipeReturnsNone(t) ==
    /\ pc[t] = "pipe"
    /\ cbStep[t] + 1 = steps[t]
    /\ pc' = [pc EXCEPT ![t] = "except_exception"]
    /\ UNCHANGED <<TASKS, steps, cbStep, firstCancel, lastQuery, call, ret, blendFailed, serverVars>>

\* if TASKS.get(task_id, {}).get('status') == 'cancelled': return
PostCheck(t) ==
    /\ pc[t] = "returned"
    /\ pc' = [pc EXCEPT ![t] =
                IF TASKS[t].status = "cancelled" THEN "done" ELSE "post"]
    /\ UNCHANGED <<TASKS, steps, cbStep, firstCancel, lastQuery, call, ret, blendFailed, serverVars>>

\* WriteResult with the store of the artifact left out.
WriteResult_Skipped(t) ==
    /\ pc[t] = "save"
    /\ pc' = [pc EXCEPT ![t] = "write_status"]
    /\ UNCHANGED <<TASKS, steps, cbStep, firstCancel, lastQuery, call, ret, blendFailed, serverVars>>

\* The boost of the 'hidden' preset, then the blend step returns:
\* blend_opacity is 0 and nothing is called, or blend_qr_contrast returns its
\* image.
BlendReturns(t) ==
    /\ pc[t] = "post"
    /\ pc' = [pc EXCEPT ![t] = "save"]
    /\ UNCHANGED <<TASKS, steps, cbStep, firstCancel, lastQuery, call, ret, blendFailed, serverVars>>

\* BlendCaught without the try around the blend step.
BlendCaught_Uncaught(t) ==
    /\ pc[t] = "post"
    /\ blendFailed' = blendFailed \cup {t}
    /\ pc' = [pc EXCEPT ![t] = "except_exception"]
    /\ UNCHANGED <<TASKS, steps, cbStep, firstCancel, lastQuery, call, ret, serverVars>>

\* blend_qr_contrast raises: except Exception as pp_e keeps final_img as it
\* is and the worker goes on to the encoding.
BlendCaught(t) ==
    /\ pc[t] = "post"
    /\ blendFailed' = blendFailed \cup {t}
    /\ pc' = [pc EXCEPT ![t] = "save"]
    /\ UNCHANGED <<TASKS, steps, cbStep, firstCancel, lastQuery, call, ret, serverVars>>

\* The PNG encoding raises.
SaveRaises(t) ==
    /\ pc[t] = "save"
    /\ pc' = [pc EXCEPT ![t] = "except_exception"]
    /\ UNCHANGED <<TASKS, steps, cbStep, firstCancel, lastQuery, call, ret, blendFailed, serverVars>>

\* PNG encoding, then TASKS[task_id]['result'] = img_b64.
WriteResult(t) ==
    /\ pc[t] = "save"
    /\ TASKS' = SetField(t, "result", "img_b64")
    /\ pc' = [pc EXCEPT ![t] = "write_status"]
    /\ UNCHANGED <<steps, cbStep, firstCancel, lastQuery, call, ret, blendFailed, serverVars>>

PostRaises(t) ==
    /\ pc[t] = "post"
    /\ pc' = [pc EXCEPT ![t] = "except_exception"]
    /\ UNCHANGED <<TASKS, steps, cbStep, firstCancel, lastQuery, call, ret, blendFailed, serverVars>>

\* TASKS[task_id]['status'] = 'completed'
WriteCompleted(t) ==
    /\ pc[t] = "write_status"
    /\ TASKS' = SetField(t, "status", "completed")
    /\ pc' = [pc EXCEPT ![t] = "write_progress"]
    /\ UNCHANGED <<steps, cbStep, firstCancel, lastQuery, call, ret, blendFailed, serverVars>>

\* TASKS[task_id]['progress'] = 100
WriteProgress100(t) ==
    /\ pc[t] = "write_progress"
    /\ TASKS' = SetField(t, "progress", 100)
    /\ pc' = [pc EXCEPT ![t] = "done"]
    /\ UNCHANGED <<steps, cbStep, firstCancel, lastQuery, call, ret, blendFailed, serverVars>>

\* except InterruptedError: TASKS[task_id]['status'] = 'cancelled'
ExceptInterrupted(t) ==
    /\ pc[t] = "except_interrupted"
    /\ TASKS' = SetField(t, "status", "cancelled")
    /\ pc' = [pc EXCEPT ![t] = "done"]
    /\ UNCHANGED <<steps, cbStep, firstCancel, lastQuery, call, ret, blendFailed, serverVars>>

\* ExceptWriteFailed with the status write left out.
ExceptWriteFailed_NoStatus(t) ==
    /\ pc[t] = "except_exception"
    /\ pc' = [pc EXCEPT ![t] = "except_error"]
    /\ UNCHANGED <<TASKS, steps, cbStep, firstCancel, lastQuery, call, ret, blendFailed, serverVars>>

\* except Exception as e: TASKS[task_id]['status'] = 'failed'
ExceptWriteFailed(t) ==
    /\ pc[t] = "except_exception"
    /\ TASKS' = SetField(t, "status", "failed")
    /\ pc' = [pc EXCEPT ![t] = "except_error"]
    /\ UNCHANGED <<steps, cbStep, firstCancel, lastQuery, call, ret, blendFailed, serverVars>>

\* TASKS[task_id]['error'] = str(e)
ExceptWriteError(t) ==
    /\ pc[t] = "except_error"
    /\ TASKS' = SetField(t, "error", "str(e)")
    /\ pc' = [pc EXCEPT ![t] = "done"]
    /\ UNCHANGED <<steps, cbStep, firstCancel, lastQuery, call, ret, blendFailed, serverVars>>

\* One step of the worker thread of task t.
Worker(t) ==
    \/ \E r \in Readabilities : SetTotal(t, r)
    \/ SetupRaises(t)
    \/ EnterPipe(t)
    \/ LoadRaises(t)
    \/ CallbackCheck(t)
    \/ CallbackWriteStep(t)
    \/ CallbackWriteProgress(t)
    \/ PipeRaises(t)
    \/ PipeRaisesInterrupted(t)
    \/ PipeReturns(t)
    \/ PipeReturnsNone(t)
    \/ PostCheck(t)
    \/ PostRaises(t)
    \/ BlendReturns(t)
    \/ BlendCaught(t)
    \/ SaveRaises(t)
    \/ WriteResult(t)
    \/ WriteCompleted(t)
    \/ WriteProgress100(t)
    \/ ExceptInterrupted(t)
    \/ ExceptWriteFailed(t)
    \/ ExceptWriteError(t)

\* The steps that change the task table: submissions, cancel requests and the
\* workers.
Next ==
    \/ \E t \in TaskIds : Submit(t)
    \/ \E t \in TaskIds : Cancel(t)
    \/ \E t \in TaskIds : CancelUnknown(t)
    \/ \E t \in TaskIds : Worker(t)

Spec == Init /\ [][Next]_vars

\* Every worker thread that can take a step eventually takes one: the
\* scheduler is fair and the collaborator call returns or raises.
FairSpec == Spec /\ \A t \in TaskIds : WF_vars(Worker(t))

\* The same steps together with the status queries of a client.  A query only
\* records its reply, so the task table takes the same values as under Spec.
ObservedNext ==
    \/ Next
    \/ \E t \in TaskIds : Query(t)
    \/ \E t \in TaskIds : QueryUnknown(t)

ObservedSpec == Init /\ [][ObservedNext]_vars

(***************************************************************************)
(* Properties of the task lifecycle.                                       *)
(***************************************************************************)

\* C1: once the status of a task is 'cancelled' it is never afterwards
\* 'completed': no step takes a task from 'cancelled' to 'completed', whatever
\* the interleaving of the worker with cancel requests.
C1_CancelledNeverCompleted ==
    [][\A t \in DOMAIN TASKS :
          TASKS[t].status = "cancelled" => TASKS'[t].status # "completed"]_vars

\* C2: terminal statuses are final: no step (worker write, cancel request or
\* query) changes a status that is 'completed', 'failed' or 'cancelled'.
C2_TerminalIsFinal ==
    [][\A t \in DOMAIN TASKS :
          TASKS[t].status \in Terminal => TASKS'[t].status = TASKS[t].status]_vars

\* C3: a task whose cancel request was made before its first progress callback
\* is 'cancelled' from the request on: it stays 'cancelled' and is never
\* 'completed' nor 'failed', whatever the collaborator does afterwards.
C3_EarlyCancelStaysCancelled ==
    \A t \in DOMAIN TASKS :
        firstCancel[t] = "before_first_callback" => TASKS[t].status = "cancelled"

\* C4: under fair scheduling every submitted task eventually has a terminal
\* status, and a worker that has exited never leaves 'pending' or 'processing'
\* behind.
C4_EventuallyTerminal ==
    /\ \A t \in TaskIds :
          (t \in DOMAIN TASKS) ~> (t \in DOMAIN TASKS /\ TASKS[t].status \in Terminal)
    /\ [](\A t \in DOMAIN TASKS : pc[t] = "done" => TASKS[t].status \in Terminal)

\* C4 witness: a worker has run into a failure and exited with 'failed'.
C4_Witness ==
    \E t \in DOMAIN TASKS : pc[t] = "done" /\ TASKS[t].status = "failed"

C6_TerminalSnapshotStable ==
    [][(/\ lastQuery.code = 200
        /\ lastQuery.task.status \in Terminal
        /\ lastQuery'.id = lastQuery.id)
          => lastQuery'.task = lastQuery.task]_vars

\* C7: in every reachable state a 'cancelled' task has no result and no error.
C7_CancelledHasNoResult ==
    \A t \in DOMAIN TASKS :
        TASKS[t].status = "cancelled"
            => TASKS[t].result = None /\ TASKS[t].error = None

\* C8: in every reachable state, those between the worker's field writes
\* included, a 'completed' task has a result and progress 100.
C8_CompletedHasResult ==
    \A t \in DOMAIN TASKS :
        TASKS[t].status = "completed"
            => TASKS[t].result # None /\ TASKS[t].progress = 100

\* C8 witness: the worker has written 'completed' and not yet progress = 100.
C8_Witness ==
    \E t \in DOMAIN TASKS :
        pc[t] = "write_progress" /\ TASKS[t].status = "completed"

\* C9: whenever a query can observe 'failed', the record holds the captured
\* error message and no result.
C9_FailedHasError ==
    \A t \in DOMAIN TASKS :
        TASKS[t].status = "failed"
            => TASKS[t].error # None /\ TASKS[t].result = None

\* C10: for a task no cancel was requested for, step and progress never
\* decrease, and once the callback with step index i has run, step is i + 1
\* and progress is the floor of 100 * step / total for the current total.
C10_ProgressMonotone ==
    /\ [][\A t \in DOMAIN TASKS :
            firstCancel'[t] = "never"
                => /\ TASKS'[t].step >= TASKS[t].step
                   /\ TASKS'[t].progress >= TASKS[t].progress]_vars
    /\ [](\A t \in DOMAIN TASKS :
            (firstCancel[t] = "never" /\ pc[t] = "pipe" /\ cbStep[t] >= 0)
                => /\ TASKS[t].step = cbStep[t] + 1
                   /\ TASKS[t].progress * TASKS[t].total <= 100 * TASKS[t].step
                   /\ 100 * TASKS[t].step < (TASKS[t].progress + 1) * TASKS[t].total)

\* C10 witness: a callback has run on a task never cancelled and left a
\* progress strictly between 0 and 100.
C10_Witness ==
    \E t \in DOMAIN TASKS :
        /\ firstCancel[t] = "never" /\ pc[t] = "pipe" /\ cbStep[t] >= 0
        /\ TASKS[t].progress > 0 /\ TASKS[t].progress < 100

\* C11: in every reachable state of every task progress lies in 0..100 and
\* step in 0..total, and total is positive whenever a callback is computing
\* the progress.
C11_ProgressAndStepInRange ==
    \A t \in DOMAIN TASKS :
        /\ 0 <= TASKS[t].progress /\ TASKS[t].progress <= 100
        /\ 0 <= TASKS[t].step /\ TASKS[t].step <= TASKS[t].total
        /\ pc[t] \in {"callback_step", "callback_progress"} => TASKS[t].total > 0

\* C11 witness: the last callback has run, step has reached total.
C11_Witness ==
    \E t \in DOMAIN TASKS :
        pc[t] = "pipe" /\ cbStep[t] >= 0 /\ TASKS[t].step = TASKS[t].total

\* C12: a submit inserts, under an id not yet in the table, the record
\* (pending, progress 0, step 0, total 0, no result, no error), starts the
\* worker of that id and leaves every existing record unchanged.
C12_SubmitInsertsFreshRecord ==
    [][\A t \in TaskIds :
          (t \notin DOMAIN TASKS /\ t \in DOMAIN TASKS')
              => /\ TASKS'[t] = [status |-> "pending", progress |-> 0, step |-> 0,
                                 total |-> 0, result |-> None, error |-> None]
                 /\ pc'[t] = "start"
                 /\ \A u \in TaskIds \ {t} : pc'[u] = pc[u]
                 /\ \A u \in DOMAIN TASKS : TASKS'[u] = TASKS[u]]_vars

\* C13: a query changes nothing; for an id in the table it replies with the
\* current record, for any other id with the not-found error, and it creates
\* no entry.
C13_QueryReadOnly ==
    [][lastQuery' # lastQuery
          => /\ UNCHANGED <<TASKS, pc, steps, cbStep, firstCancel>>
             /\ IF lastQuery'.id \in DOMAIN TASKS
                THEN lastQuery'.code = 200 /\ lastQuery'.task = TASKS[lastQuery'.id]
                ELSE lastQuery'.code = 404 /\ lastQuery'.id \notin DOMAIN TASKS']_vars

\* C13 witness: a query for an unknown id was answered with not-found while
\* the table holds another task.
C13_Witness ==
    /\ lastQuery.code = 404
    /\ lastQuery.id \notin DOMAIN TASKS
    /\ TASKS # <<>>

\* C14: for every table the program reaches and every id, cancelling twice
\* gives the table that cancelling once gives; a cancel creates no entry,
\* leaves the other tasks alone and writes no field but status.
C14_CancelIdempotent ==
    \A t \in TaskIds :
        LET once == CancelTable(TASKS, t) IN
            /\ CancelTable(once, t) = once
            /\ DOMAIN once = DOMAIN TASKS
            /\ \A u \in DOMAIN TASKS :
                  /\ u # t => once[u] = TASKS[u]
                  /\ \A f \in {"progress", "step", "total", "result", "error"} :
                        once[u][f] = TASKS[u][f]

\* C14 witness: a task with progress made has been cancelled while another id
\* is still unknown to the table.
C14_Witness ==
    /\ \E t \in DOMAIN TASKS :
          /\ firstCancel[t] # "never"
          /\ TASKS[t].status = "cancelled"
          /\ TASKS[t].step > 0
    /\ \E u \in TaskIds : u \notin DOMAIN TASKS

(***************************************************************************)
(* Strategy selector: smart_analyze_prompt.  Prompts are sequences of      *)
(* characters; amounts with two decimals are kept in hundredths.           *)
(***************************************************************************)

\* Longest prompt tried.
MaxPromptLen == 6

\* The characters prompts are made of.
PromptChars == {"m", "a", "n", "p", "M", "A"}

Prompts == UNION {[1..n -> PromptChars] : n \in 0..MaxPromptLen}

\* str.lower() on one character.
LowerChar(c) == CASE c = "M" -> "m" [] c = "A" -> "a" [] OTHER -> c

\* p = prompt_text.lower()
Lower(text) == [i \in 1..Len(text) |-> LowerChar(text[i])]

\* k in p, for strings.
Contains(k, p) ==
    \E i \in 1..(Len(p) - Len(k) + 1) : SubSeq(p, i, i + Len(k) - 1) = k

\* The entries of smooth_keywords and of texture_keywords that are spelled
\* with letters of PromptChars; no other entry can occur in such a prompt.
smooth_keywords == {<<"m", "a", "n">>}

texture_keywords == {<<"m", "a", "p">>}

SmoothPreset ==
    [mode |-> "Smooth/Adaptive", cn_scale |-> 170, blend |-> 15,
     contrast |-> 105, sharpness |-> 115]

TexturedPreset ==
    [mode |-> "Textured/Nature", cn_scale |-> 165, blend |-> 0,
     contrast |-> 120, sharpness |-> 150]

BalancedPreset ==
    [mode |-> "Balanced/General", cn_scale |-> 175, blend |-> 10,
     contrast |-> 110, sharpness |-> 125]

\* smart_analyze_prompt with the two tests in the other order.
smart_analyze_prompt_TexturedFirst(prompt_text) ==
    LET p == Lower(prompt_text)
        is_smooth == \E k \in smooth_keywords : Contains(k, p)
        is_textured == \E k \in texture_keywords : Contains(k, p)
    IN  IF is_textured THEN TexturedPreset
        ELSE IF is_smooth THEN SmoothPreset
        ELSE BalancedPreset

smart_analyze_prompt(prompt_text) ==
    LET p == Lower(prompt_text)
        is_smooth == \E k \in smooth_keywords : Contains(k, p)
        is_textured == \E k \in texture_keywords : Contains(k, p)
    IN  IF is_smooth THEN SmoothPreset
        ELSE IF is_textured THEN TexturedPreset
        ELSE BalancedPreset

StrategyInit ==
    /\ NoTasks
    /\ call \in {[fn |-> "smart_analyze_prompt", prompt |-> p] : p \in Prompts}
    /\ ret = [done |-> FALSE]

Analyze ==
    /\ call.fn = "smart_analyze_prompt"
    /\ ~ret.done
    /\ ret' = [done |-> TRUE, value |-> smart_analyze_prompt(call.prompt)]
    /\ UNCHANGED <<taskVars, serverVars, call>>

StrategySpec == StrategyInit /\ [][Analyze]_vars

\* The prompt holds keyword k at some position, letter case apart.
HoldsKeyword(prompt, k) ==
    \E i \in 1..Len(prompt) :
        /\ i + Len(k) - 1 <= Len(prompt)
        /\ \A j \in 1..Len(k) :
              \/ prompt[i + j - 1] = k[j]
              \/ <<prompt[i + j - 1], k[j]>> \in {<<"M", "m">>, <<"A", "a">>}

\* C15: the selector returns one of the three fixed presets, decided by two
\* facts only: whether the prompt holds a smooth keyword and whether it holds
\* a textured one, letter case apart.  Smooth gives conditioning 1.70 and
\* blend 0.15 even when a textured keyword is there too, textured alone gives
\* 1.65 and 0.00, neither gives 1.75 and 0.10.
C15_StrategyPreset ==
    (call.fn = "smart_analyze_prompt" /\ ret.done) =>
        LET smooth == HoldsKeyword(call.prompt, <<"m", "a", "n">>)
            textured == HoldsKeyword(call.prompt, <<"m", "a", "p">>)
            v == ret.value
        IN  /\ v \in {SmoothPreset, TexturedPreset, BalancedPreset}
            /\ smooth => (v.cn_scale = 170 /\ v.blend = 15)
            /\ (~smooth /\ textured) => (v.cn_scale = 165 /\ v.blend = 0)
            /\ (~smooth /\ ~textured) => (v.cn_scale = 175 /\ v.blend = 10)

\* C15 witness: "MAnmap" holds a smooth and a textured keyword and got the
\* smooth preset.
C15_Witness ==
    /\ call.fn = "smart_analyze_prompt"
    /\ ret.done
    /\ call.prompt = <<"M", "A", "n", "m", "a", "p">>
    /\ ret.value.blend = 15

(***************************************************************************)
(* Geometry of qr_ai_art.py: the finder zone and the module size.          *)
(***************************************************************************)

\* Largest quiet zone, in modules, and largest QR version tried.
MaxBorder == 2
MaxVersion == 1

\* Side of the matrix _qr_matrix returns: a QR code of version v has
\* 17 + 4 * v modules a side, and border blank modules are added all around.
MatrixSide(v, border) == 17 + 4 * v + 2 * border

is_in_square(x, y, left, top, size) ==
    /\ left <= x /\ x < left + size
    /\ top <= y /\ y < top + size

\* _is_finder_or_separator with the separator left out of tr_left.
is_finder_or_separator_NoSep(x, y, n, border) ==
    LET finder == 7
        sep == 1
        size == finder + 2 * sep
        tl_left == border - sep
        tl_top == border - sep
        tr_left == (n - border) - finder + 0
        tr_top == border - sep
        bl_left == border - sep
        bl_top == (n - border) - finder + 0 - sep
    IN  \/ is_in_square(x, y, tl_left, tl_top, size)
        \/ is_in_square(x, y, tr_left, tr_top, size)
        \/ is_in_square(x, y, bl_left, bl_top, size)

is_finder_or_separator(x, y, n, border) ==
    LET finder == 7
        sep == 1
        size == finder + 2 * sep
        tl_left == border - sep
        tl_top == border - sep
        tr_left == (n - border) - finder + 0 - sep
        tr_top == border - sep
        bl_left == border - sep
        bl_top == (n - border) - finder + 0 - sep
    IN  \/ is_in_square(x, y, tl_left, tl_top, size)
        \/ is_in_square(x, y, tr_left, tr_top, size)
        \/ is_in_square(x, y, bl_left, bl_top, size)

FinderInit ==
    /\ NoTasks
    /\ call \in {[fn |-> "_is_finder_or_separator", x |-> x, y |-> y,
                  n |-> MatrixSide(v, b), border |-> b] :
                    x \in 0..(MatrixSide(MaxVersion, MaxBorder) - 1),
                    y \in 0..(MatrixSide(MaxVersion, MaxBorder) - 1),
                    v \in 1..MaxVersion, b \in 0..MaxBorder}
    /\ call.x < call.n
    /\ call.y < call.n
    /\ ret = [done |-> FALSE]

TestFinder ==
    /\ call.fn = "_is_finder_or_separator"
    /\ ~ret.done
    /\ ret' = [done |-> TRUE,
               value |-> is_finder_or_separator(call.x, call.y, call.n, call.border)]
    /\ UNCHANGED <<taskVars, serverVars, call>>

FinderSpec == FinderInit /\ [][TestFinder]_vars

\* (x, y) lies in the 7x7 finder whose first module is (fx, fy) or in the ring
\* of one module around it.
InFinderWithRing(x, y, fx, fy) ==
    /\ fx - 1 <= x /\ x <= fx + 7
    /\ fy - 1 <= y /\ y <= fy + 7

\* C16: the predicate is true exactly for the modules of the three 9x9 squares
\* (finder and separator ring) at the top-left, top-right and bottom-left
\* corners of the data area, which starts border modules in; it is false
\* everywhere else, the bottom-right corner included.
C16_FinderZone ==
    (call.fn = "_is_finder_or_separator" /\ ret.done) =>
        LET first == call.border
            last == call.n - call.border - 7
        IN  /\ ret.value <=>
                  \/ InFinderWithRing(call.x, call.y, first, first)
                  \/ InFinderWithRing(call.x, call.y, last, first)
                  \/ InFinderWithRing(call.x, call.y, first, last)
            /\ InFinderWithRing(call.x, call.y, last, last) => ~ret.value

\* C16 witness: with a quiet zone, the module left of the top-right finder
\* (its separator) is in the zone.
C16_Witness ==
    /\ call.fn = "_is_finder_or_separator"
    /\ ret.done
    /\ call.border > 0
    /\ call.x = call.n - call.border - 8
    /\ call.y = call.border
    /\ ret.value

\* Largest module count and largest requested size tried for the module size.
MaxModules == 8
MaxOutSize == 20

\* module_px = out_size // modules
ModulePx(out_size, modules) == out_size \div modules

\* SizeOf with the test module_px < 0 in place of module_px <= 0.
SizeOf_NeverRaises(out_size, modules) ==
    LET module_px == ModulePx(out_size, modules) IN
        IF module_px < 0
        THEN [raised |-> TRUE, module_px |-> module_px, size |-> 0, image |-> FALSE]
        ELSE [raised |-> FALSE, module_px |-> module_px,
              size |-> module_px * modules, image |-> TRUE]

\* The head of generate_art_qr: ValueError and no image when module_px <= 0,
\* otherwise an image of size = module_px * modules a side.
SizeOf(out_size, modules) ==
    LET module_px == ModulePx(out_size, modules) IN
        IF module_px <= 0
        THEN [raised |-> TRUE, module_px |-> module_px, size |-> 0, image |-> FALSE]
        ELSE [raised |-> FALSE, module_px |-> module_px,
              size |-> module_px * modules, image |-> TRUE]

SizeInit ==
    /\ NoTasks
    /\ call \in {[fn |-> "generate_art_qr.size", modules |-> m, out_size |-> sz] :
                    m \in 1..MaxModules, sz \in 1..MaxOutSize}
    /\ ret = [done |-> FALSE]

ComputeSize ==
    /\ call.fn = "generate_art_qr.size"
    /\ ~ret.done
    /\ ret' = [done |-> TRUE, value |-> SizeOf(call.out_size, call.modules)]
    /\ UNCHANGED <<taskVars, serverVars, call>>

SizeSpec == SizeInit /\ [][ComputeSize]_vars

\* C17: for m >= 1 modules and a requested size s >= 1, module_px is the floor
\* of s / m; composition fails, with no image, exactly when s < m (module_px
\* is 0); otherwise the rendered side is module_px * m, more than s - m and at
\* most s.
C17_ModuleSize ==
    (call.fn = "generate_art_qr.size" /\ ret.done) =>
        LET m == call.modules
            sz == call.out_size
            v == ret.value
        IN  /\ v.module_px * m <= sz /\ sz < (v.module_px + 1) * m
            /\ v.raised <=> sz < m
            /\ v.raised <=> v.module_px = 0
            /\ v.raised => ~v.image
            /\ ~v.raised => /\ v.image
                            /\ v.size = v.module_px * m
                            /\ sz - m < v.size /\ v.size <= sz

\* C17 witness: a requested size that is no multiple of the module count is
\* rendered smaller than requested.
C17_Witness ==
    /\ call.fn = "generate_art_qr.size"
    /\ ret.done
    /\ ~ret.value.raised
    /\ ret.value.module_px > 1
    /\ ret.value.size < call.out_size

\* ---------------------------------------------------------------------
\* Direct composition (generate_art_qr).  Images are grey (R = G = B), one
\* level per pixel, kept as rows: image[y][x].  Factors are in hundredths.
\* ---------------------------------------------------------------------

\* Largest module size in pixels tried for the composition.
MaxModulePx == 2

BgLevels == {93, 211}

Strengths == {50, 100}

Textures == {0, 100}

DataPatterns == {0, 1}

\* One bit of a finder pattern, (dx, dy) counted from its top-left module:
\* dark outer ring, light ring, dark 3x3 core.
FinderBit(dx, dy) ==
    LET ax == IF dx > 3 THEN dx - 3 ELSE 3 - dx
        ay == IF dy > 3 THEN dy - 3 ELSE 3 - dy
        ring == IF ax > ay THEN ax ELSE ay
    IN  ring # 2

\* matrix[y][x] of _qr_matrix: light quiet zone and separators, the three
\* finder patterns, and a payload-dependent pattern everywhere else.
QrMatrix(x, y, n, border, data) ==
    LET first == border
        last == n - border - 7
        InFinder(fx, fy) == x >= fx /\ x < fx + 7 /\ y >= fy /\ y < fy + 7
    IN  IF x < border \/ y < border \/ x >= n - border \/ y >= n - border
        THEN FALSE
        ELSE IF InFinder(first, first) THEN FinderBit(x - first, y - first)
        ELSE IF InFinder(last, first) THEN FinderBit(x - last, y - first)
        ELSE IF InFinder(first, last) THEN FinderBit(x - first, y - last)
        ELSE IF is_finder_or_separator(x, y, n, border) THEN FALSE
        ELSE (x + y + data) % 2 = 0

\* The prepared background base_bg: level bg[1] left of the middle column,
\* bg[2] from the middle column on.
BaseBg(size, bg) ==
    [y \in 0..(size - 1) |->
        [x \in 0..(size - 1) |-> IF x < size \div 2 THEN bg[1] ELSE bg[2]]]

\* Image.blend on one channel: in1 + alpha * (in2 - in1), cut to 0..255 and
\* truncated; alpha 0 and alpha 1 return the first and the second image.
BlendPx(in1, in2, alpha) ==
    IF alpha = 0 THEN in1
    ELSE IF alpha = 100 THEN in2
    ELSE LET temp == (in1 * 100 + alpha * (in2 - in1)) \div 100
         IN  IF temp <= 0 THEN 0 ELSE IF temp >= 255 THEN 255 ELSE temp

RECURSIVE SumTo(_, _)
SumTo(region, k) == IF k = 0 THEN 0 ELSE region[k - 1] + SumTo(region, k - 1)

\* base_bg.crop((x0, y0, x0 + px, y0 + px)), row by row.
Crop(image, x0, y0, px) ==
    [i \in 0..(px * px - 1) |-> image[y0 + (i \div px)][x0 + (i % px)]]

\* ImageEnhance.Brightness: blend of a black image with the region.
EnhanceBrightness(region, factor) ==
    [i \in DOMAIN region |-> BlendPx(0, region[i], factor)]

\* ImageEnhance.Contrast: blend of the flat image of the region's rounded mean
\* luma with the region.
EnhanceContrast(region, factor) ==
    LET count == Cardinality(DOMAIN region)
        mean == (2 * SumTo(region, count) + count) \div (2 * count)
    IN  [i \in DOMAIN region |-> BlendPx(mean, region[i], factor)]

\* ImageEnhance.Color: blend of the region's grey version with the region.
EnhanceColor(region, factor) ==
    [i \in DOMAIN region |-> BlendPx(region[i], region[i], factor)]

\* draw.rectangle((x0, y0, x1, y1), fill): both corners are painted.
Rectangle(canvas, x0, y0, x1, y1, fill) ==
    [y \in DOMAIN canvas |->
        IF y >= y0 /\ y <= y1
        THEN [x \in DOMAIN canvas[y] |->
                 IF x >= x0 /\ x <= x1 THEN fill ELSE canvas[y][x]]
        ELSE canvas[y]]

\* canvas.paste(region, (x0, y0)): exactly the px * px pixels of the region.
Paste(canvas, region, x0, y0, px) ==
    [y \in DOMAIN canvas |->
        IF y >= y0 /\ y < y0 + px
        THEN [x \in DOMAIN canvas[y] |->
                 IF x >= x0 /\ x < x0 + px
                 THEN region[(y - y0) * px + (x - x0)]
                 ELSE canvas[y][x]]
        ELSE canvas[y]]

\* factor = 0.35 + (1.0 - strength) * 0.3 of a dark module.
DarkFactor(strength) == 35 + ((100 - strength) * 30) \div 100

\* factor = 1.65 + (strength - 0.5) * 0.5 of a light module.
LightFactor(strength) == 165 + ((strength - 50) * 50) \div 100

\* The region pasted for a module that is not locked: darkened and
\* contrasted when the bit is dark, brightened and desaturated when light.
MappedRegion(base_bg, x0, y0, px, is_dark, strength) ==
    LET region == Crop(base_bg, x0, y0, px) IN
        IF is_dark
        THEN EnhanceContrast(
                 EnhanceBrightness(region, DarkFactor(strength)), 110)
        ELSE EnhanceColor(
                 EnhanceBrightness(region, LightFactor(strength)), 90)

\* PaintModule without the continue after the finder rectangle.
PaintModule_NoContinue(canvas, base_bg, mx, my, c, px) ==
    LET x0 == mx * px
        y0 == my * px
        is_dark == QrMatrix(mx, my, c.n, c.border, c.data)
    IN  Paste(canvas, MappedRegion(base_bg, x0, y0, px, is_dark, c.strength),
              x0, y0, px)

\* One pass of the loop body for module (mx, my); c is the call, px the
\* module size.  style.texture is not read.
PaintModule(canvas, base_bg, mx, my, c, px) ==
    LET x0 == mx * px
        y0 == my * px
        x1 == x0 + px
        y1 == y0 + px
        is_dark == QrMatrix(mx, my, c.n, c.border, c.data)
    IN  IF is_finder_or_separator(mx, my, c.n, c.border) /\ c.preserve_finders
        THEN Rectangle(canvas, x0, y0, x1, y1, IF is_dark THEN 0 ELSE 255)
        ELSE Paste(canvas,
                   MappedRegion(base_bg, x0, y0, px, is_dark, c.strength),
                   x0, y0, px)

RECURSIVE PaintRow(_, _, _, _, _, _)
PaintRow(canvas, base_bg, mx, my, c, px) ==
    IF mx = c.n THEN canvas
    ELSE PaintRow(PaintModule(canvas, base_bg, mx, my, c, px),
                  base_bg, mx + 1, my, c, px)

\* The start of generate_art_qr on the call: the size check, then the canvas
\* as a copy of the prepared background, before the first row of modules.
ComposeStart ==
    /\ call.fn = "generate_art_qr"
    /\ ret.line = "start"
    /\ LET sz == SizeOf(call.out_size, call.n) IN
           ret' = IF sz.raised
                  THEN [done |-> TRUE, line |-> "raise", my |-> 0,
                        value |-> [raised |-> TRUE, module_px |-> sz.module_px,
                                   size |-> 0, canvas |-> <<>>, mode |-> None]]
                  ELSE [done |-> FALSE, line |-> "loop", my |-> 0,
                        value |-> [raised |-> FALSE, module_px |-> sz.module_px,
                                   size |-> sz.size,
                                   canvas |-> BaseBg(sz.size, call.bg),
                                   mode |-> "RGB"]]
    /\ UNCHANGED <<taskVars, serverVars, call>>

\* One pass of the outer loop: every module of row my, left to right.
ComposeRow ==
    /\ call.fn = "generate_art_qr"
    /\ ret.line = "loop"
    /\ ret.my < call.n
    /\ ret' = [ret EXCEPT
                 !.my = @ + 1,
                 !.value.canvas =
                     PaintRow(@, BaseBg(ret.value.size, call.bg), 0, ret.my,
                              call, ret.value.module_px)]
    /\ UNCHANGED <<taskVars, serverVars, call>>

RoundedRadii == {0, 8}

\* After the last row the canvas is returned, with the rounded mask as its
\* alpha channel and its colours unchanged when style.rounded_radius > 0.
ComposeReturn ==
    /\ call.fn = "generate_art_qr"
    /\ ret.line = "loop"
    /\ ret.my = call.n
    /\ \E rounded_radius \in RoundedRadii :
           ret' = [ret EXCEPT !.done = TRUE, !.line = "return",
                              !.value.mode = IF rounded_radius > 0
                                             THEN "RGBA" ELSE "RGB"]
    /\ UNCHANGED <<taskVars, serverVars, call>>

ComposeInit ==
    /\ NoTasks
    /\ call \in {[fn |-> "generate_art_qr", n |-> MatrixSide(1, b), border |-> b,
                  out_size |-> px * MatrixSide(1, b) + 1,
                  preserve_finders |-> pf, strength |-> st, texture |-> tx,
                  bg |-> <<l, r>>, data |-> dp] :
                    b \in 0..MaxBorder, px \in 0..MaxModulePx, pf \in BOOLEAN,
                    st \in Strengths, tx \in Textures,
                    l \in BgLevels, r \in BgLevels, dp \in DataPatterns}
    /\ ret = [done |-> FALSE, line |-> "start"]

ComposeNext == ComposeStart \/ ComposeRow \/ ComposeReturn

ComposeSpec == ComposeInit /\ [][ComposeNext]_vars

\* The pixels of module (mx, my) of a finished canvas.
ModulePixels(mx, my) ==
    LET px == ret.value.module_px IN
        {ret.value.canvas[y][x] : x \in (mx * px)..(mx * px + px - 1),
                                  y \in (my * px)..(my * px + px - 1)}

\* The finder zone: the three 9x9 squares of a finder with its ring.
FinderZone(mx, my) ==
    LET first == call.border
        last == call.n - call.border - 7
    IN  \/ InFinderWithRing(mx, my, first, first)
        \/ InFinderWithRing(mx, my, last, first)
        \/ InFinderWithRing(mx, my, first, last)

\* C18: with preserve_finders set, every pixel of every module of the finder
\* zone is 0 when the module's bit is dark and 255 when it is light, for
\* every background, strength and texture.
C18_FindersPure ==
    (call.fn = "generate_art_qr" /\ ret.done /\ ~ret.value.raised
        /\ call.preserve_finders) =>
        \A mx \in 0..(call.n - 1), my \in 0..(call.n - 1) :
            FinderZone(mx, my) =>
                ModulePixels(mx, my) =
                    {IF QrMatrix(mx, my, call.n, call.border, call.data)
                     THEN 0 ELSE 255}

\* C18 witness: modules of several pixels over a two-level background; the
\* module right of the top-left zone was pasted from the background after the
\* zone's rectangles reached into it.
C18_Witness ==
    /\ call.fn = "generate_art_qr"
    /\ ret.done
    /\ ~ret.value.raised
    /\ call.preserve_finders
    /\ ret.value.module_px > 1
    /\ call.bg[1] # call.bg[2]
    /\ call.border > 0
    /\ ModulePixels(call.border + 7, call.border) = {255}
    /\ ModulePixels(call.border + 8, call.border) \cap {0, 255} = {}

\* C19: with texture 0 and strength 1 every dark module outside the finder
\* zone is one solid colour.
C19_DarkModulesSolid ==
    (call.fn = "generate_art_qr" /\ ret.done /\ ~ret.value.raised
        /\ call.texture = 0 /\ call.strength = 100) =>
        \A mx \in 0..(call.n - 1), my \in 0..(call.n - 1) :
            (~FinderZone(mx, my)
                /\ QrMatrix(mx, my, call.n, call.border, call.data)) =>
                Cardinality(ModulePixels(mx, my)) = 1

\* ---------------------------------------------------------------------
\* Contrast-enforcement blender (blend_qr_contrast).  Every operation of the
\* blender acts on each pixel and channel on its own, given the masks at that
\* pixel, so an image is one channel level together with the control level,
\* the finder pattern level and the blurred finder alpha at the same pixel.
\* Opacity and factors are in hundredths.
\* ---------------------------------------------------------------------

PixelLevels == {0, 1, 100, 255}

ControlLevels == {0, 255}

AlphaLevels == {0, 1, 128, 254, 255}

Opacities == {0, 15, 35, 100}

Max(a, b) == IF a > b THEN a ELSE b

Min(a, b) == IF a < b THEN a ELSE b

\* Rounded division by 255 as the imaging library does it.
Div255(a) == LET tmp == a + 128 IN ((tmp \div 256) + tmp) \div 256

\* Image.composite(image1, image2, mask) on one channel: image1 pasted over
\* a copy of image2 through the mask.
CompositePx(image1, image2, mask) ==
    IF mask = 0 THEN image2
    ELSE IF mask = 255 THEN image1
    ELSE Div255(image2 * (255 - mask) + image1 * mask)

\* shadow_factor = 0.4 - (opacity * 0.2)
ShadowFactor(opacity) == 40 - (opacity * 20) \div 100

\* highlight_factor = 1.0 + (opacity * 0.8)
HighlightFactor(opacity) == 100 + (opacity * 80) \div 100

\* blend_qr_contrast with finder_opacity = min(1.0, opacity + 0.15) at every
\* opacity.
blend_qr_contrast_NoZeroGuard(ai_image, control, finder_pattern, finder_alpha, opacity, finder_fails) ==
    LET shadow_factor == ShadowFactor(opacity)
        shadow_layer == BlendPx(0, ai_image, Max(10, shadow_factor))
        highlight_factor == HighlightFactor(opacity)
        highlight_layer == BlendPx(0, ai_image, highlight_factor)
        global_contrast == CompositePx(highlight_layer, shadow_layer, control)
        blended == BlendPx(ai_image, global_contrast, opacity)
        deep_shadow == BlendPx(0, ai_image, Max(5, shadow_factor - 10))
        bright_highlight == BlendPx(0, ai_image, highlight_factor + 20)
        finder_contrast ==
            CompositePx(bright_highlight, deep_shadow, finder_pattern)
        finder_opacity == Min(100, opacity + 15)
        final_finders == BlendPx(blended, finder_contrast, finder_opacity)
        final_output == CompositePx(final_finders, blended, finder_alpha)
    IN  [blended |-> blended,
         output |-> IF finder_fails THEN blended ELSE final_output,
         shadow_factor |-> Max(10, shadow_factor),
         highlight_factor |-> highlight_factor]

\* blend_qr_contrast at one pixel; finder_fails is the except branch, taken
\* when the finder mask cannot be built or does not fit the image.
blend_qr_contrast(ai_image, control, finder_pattern, finder_alpha, opacity, finder_fails) ==
    LET shadow_factor == ShadowFactor(opacity)
        shadow_layer == BlendPx(0, ai_image, Max(10, shadow_factor))
        highlight_factor == HighlightFactor(opacity)
        highlight_layer == BlendPx(0, ai_image, highlight_factor)
        global_contrast == CompositePx(highlight_layer, shadow_layer, control)
        blended == BlendPx(ai_image, global_contrast, opacity)
        deep_shadow == BlendPx(0, ai_image, Max(5, shadow_factor - 10))
        bright_highlight == BlendPx(0, ai_image, highlight_factor + 20)
        finder_contrast ==
            CompositePx(bright_highlight, deep_shadow, finder_pattern)
        finder_opacity == IF opacity > 0 THEN Min(100, opacity + 15) ELSE 0
        final_finders == BlendPx(blended, finder_contrast, finder_opacity)
        final_output == CompositePx(final_finders, blended, finder_alpha)
    IN  [blended |-> blended,
         output |-> IF finder_fails THEN blended ELSE final_output,
         shadow_factor |-> Max(10, shadow_factor),
         highlight_factor |-> highlight_factor]

BlendInit ==
    /\ NoTasks
    /\ call \in {[fn |-> "blend_qr_contrast", ai_image |-> p, control |-> c,
                  finder_pattern |-> fp, finder_alpha |-> fa, opacity |-> op,
                  finder_fails |-> ff] :
                    p \in PixelLevels, c \in ControlLevels,
                    fp \in ControlLevels, fa \in AlphaLevels,
                    op \in Opacities, ff \in BOOLEAN}
    /\ ret = [done |-> FALSE]

Blend ==
    /\ call.fn = "blend_qr_contrast"
    /\ ~ret.done
    /\ ret' = [done |-> TRUE,
               value |-> blend_qr_contrast(call.ai_image, call.control,
                                           call.finder_pattern,
                                           call.finder_alpha, call.opacity,
                                           call.finder_fails)]
    /\ UNCHANGED <<taskVars, serverVars, call>>

BlendSpec == BlendInit /\ [][Blend]_vars

\* C20: called with opacity 0 the blender returns the input image pixel for
\* pixel, for every image, control pattern and finder mask: the global blend
\* is the identity and the finder enforcement adds nothing.
C20_ZeroOpacityIdentity ==
    (call.fn = "blend_qr_contrast" /\ ret.done /\ call.opacity = 0) =>
        /\ ret.value.blended = call.ai_image
        /\ ret.value.output = call.ai_image

\* C20 witness: opacity 0 at a mid-grey pixel under a dark control module and
\* inside the blurred finder mask, with the finder branch taken.
C20_Witness ==
    /\ call.fn = "blend_qr_contrast"
    /\ ret.done
    /\ call.opacity = 0
    /\ ~call.finder_fails
    /\ call.ai_image = 100
    /\ call.control = 0
    /\ call.finder_alpha = 128
    /\ ret.value.output = 100

\* ---------------------------------------------------------------------
\* The result cache of POST /generate.  Each request runs on its own thread
\* of the server; every read or write of RESULT_CACHE is one step.
\* ---------------------------------------------------------------------

\* request.form: the payload, the mode and the seed field.
Forms == [data : {"", "https://a"}, mode : {"organic", "ai"}, seed : {-1, 7}]

\* request.files['image']: the uploaded background.
Uploads == {"a.png", "b.png"}

\* What an unseeded generator can draw.
Draws == {0, 1}

\* cache_key: the digest of the sorted items of request.form.  request.files
\* is not read; forms that differ have different digests.
CacheKey(form, image) == <<form>>

\* The inputs the artifact is computed from: the form and, outside AI mode,
\* the uploaded background.
ArtifactInputs(form, image) ==
    [form |-> form, image |-> IF form.mode = "ai" THEN None ELSE image]

\* The request arrives: cache_key is computed from the form.
Receive(r, form, image) ==
    /\ req[r].line = "idle"
    /\ req' = [req EXCEPT ![r] =
                 [line |-> "lookup", form |-> form, image |-> image,
                  cache_key |-> CacheKey(form, image)]]
    /\ UNCHANGED <<taskVars, RESULT_CACHE, pipe, current_mode, thr, call, ret>>

\* if cache_key in RESULT_CACHE
Lookup(r) ==
    /\ req[r].line = "lookup"
    /\ req' = [req EXCEPT ![r].line =
                 IF req[r].cache_key \in DOMAIN RESULT_CACHE
                 THEN "hit" ELSE "validate"]
    /\ UNCHANGED <<taskVars, RESULT_CACHE, pipe, current_mode, thr, call, ret>>

\* return _render_page(..., img_data=RESULT_CACHE[cache_key], error=None)
ReturnCached(r) ==
    /\ req[r].line = "hit"
    /\ req' = [req EXCEPT ![r] =
                 [line |-> "done", form |-> @.form, image |-> @.image,
                  cache_key |-> @.cache_key, hit |-> TRUE,
                  img_data |-> RESULT_CACHE[@.cache_key], error |-> None]]
    /\ UNCHANGED <<taskVars, RESULT_CACHE, pipe, current_mode, thr, call, ret>>

\* if not values.data: the error page, nothing stored.
Validate(r) ==
    /\ req[r].line = "validate"
    /\ req' = [req EXCEPT ![r] =
                 IF @.form.data = ""
                 THEN [line |-> "done", form |-> @.form, image |-> @.image,
                       cache_key |-> @.cache_key, hit |-> FALSE,
                       img_data |-> None, error |-> "Data tidak boleh kosong"]
                 ELSE [@ EXCEPT !.line = "compute"]]
    /\ UNCHANGED <<taskVars, RESULT_CACHE, pipe, current_mode, thr, call, ret>>

\* The artifact is generated and encoded: in AI mode by the generator, whose
\* output depends on what it draws when the seed is -1, otherwise by
\* generate_art_qr over the uploaded background.
ComputeArtifact(r, draw) ==
    /\ req[r].line = "compute"
    /\ (req[r].form.mode = "ai" /\ req[r].form.seed = -1) \/ draw = 0
    /\ req' = [req EXCEPT ![r] =
                 [line |-> "store", form |-> @.form, image |-> @.image,
                  cache_key |-> @.cache_key,
                  img_b64 |-> [inputs |-> ArtifactInputs(@.form, @.image),
                               draw |-> draw]]]
    /\ UNCHANGED <<taskVars, RESULT_CACHE, pipe, current_mode, thr, call, ret>>

\* The generation raises or the upload is no image: the error page, nothing
\* stored.
ComputeFails(r) ==
    /\ req[r].line = "compute"
    /\ req' = [req EXCEPT ![r] =
                 [line |-> "done", form |-> @.form, image |-> @.image,
                  cache_key |-> @.cache_key, hit |-> FALSE,
                  img_data |-> None, error |-> "str(exc)"]]
    /\ UNCHANGED <<taskVars, RESULT_CACHE, pipe, current_mode, thr, call, ret>>

\* RESULT_CACHE[cache_key] = img_b64, then the page with the artifact.
Store(r) ==
    /\ req[r].line = "store"
    /\ RESULT_CACHE' = (req[r].cache_key :> req[r].img_b64) @@ RESULT_CACHE
    /\ req' = [req EXCEPT ![r] =
                 [line |-> "done", form |-> @.form, image |-> @.image,
                  cache_key |-> @.cache_key, hit |-> FALSE,
                  img_data |-> @.img_b64, error |-> None]]
    /\ UNCHANGED <<taskVars, pipe, current_mode, thr, call, ret>>

CacheNext ==
    \/ \E r \in RequestIds, form \in Forms, image \in Uploads :
          Receive(r, form, image)
    \/ \E r \in RequestIds : Lookup(r)
    \/ \E r \in RequestIds : ReturnCached(r)
    \/ \E r \in RequestIds : Validate(r)
    \/ \E r \in RequestIds, draw \in Draws : ComputeArtifact(r, draw)
    \/ \E r \in RequestIds : ComputeFails(r)
    \/ \E r \in RequestIds : Store(r)

CacheSpec == Init /\ [][CacheNext]_vars

\* C21: a request answered from the cache receives an artifact that was
\* computed from its own inputs: its form and, outside AI mode, its uploaded
\* background.
C21_HitMatchesInputs ==
    \A r \in RequestIds :
        (req[r].line = "done" /\ req[r].hit) =>
            req[r].img_data.inputs = ArtifactInputs(req[r].form, req[r].image)

\* C26: an entry of the cache is never removed and never changes, and a
\* request that ends with an error stores nothing.
C26_CacheAppendOnly ==
    [][/\ \A k \in DOMAIN RESULT_CACHE :
             k \in DOMAIN RESULT_CACHE' /\ RESULT_CACHE'[k] = RESULT_CACHE[k]
       /\ \A r \in RequestIds :
             (req'[r].line = "done" /\ req[r].line # "done"
                 /\ req'[r].error # None) => RESULT_CACHE' = RESULT_CACHE]_vars

C22_FinderFailureDegrades ==
    (call.fn = "blend_qr_contrast" /\ ret.done /\ call.finder_fails) =>
        ret.value.output = ret.value.blended

\* The worker of t is inside the collaborator call, between or inside
\* progress callbacks.
InCollaborator(t) == pc[t] \in {"pipe", "callback_step", "callback_progress"}

\* C23: a task whose worker is running the collaborator, and for which no
\* cancel was requested, has status 'processing'.
C23_ProcessingWhileRunning ==
    \A t \in DOMAIN TASKS :
        (InCollaborator(t) /\ firstCancel[t] = "never")
            => TASKS[t].status = "processing"

\* C24: while the status is 'cancelled' a callback that starts raises the
\* cancellation signal and writes neither step nor progress; the handler of
\* the signal writes 'cancelled' and ends the worker, so no completion write
\* follows and the result stays empty.
C24_CancelStopsCallbacks ==
    [][\A t \in DOMAIN TASKS :
          /\ (TASKS[t].status = "cancelled" /\ pc[t] = "pipe"
                /\ cbStep'[t] # cbStep[t])
                => /\ pc'[t] = "except_interrupted"
                   /\ TASKS'[t] = TASKS[t]
          /\ (pc[t] = "except_interrupted" /\ pc'[t] # pc[t])
                => /\ pc'[t] = "done"
                   /\ TASKS'[t] = [TASKS[t] EXCEPT !.status = "cancelled"]]_vars

\* C24 witness: a cancel arrived after two callbacks had run; the worker has
\* ended 'cancelled' with the step of the second callback and no result.
C24_Witness ==
    \E t \in DOMAIN TASKS :
        /\ pc[t] = "done"
        /\ firstCancel[t] = "after_first_callback"
        /\ cbStep[t] = 2
        /\ TASKS[t].status = "cancelled"
        /\ TASKS[t].step = 2
        /\ TASKS[t].result = None

\* The fields of a record that only the task's own worker writes.
WorkerFields(task) ==
    <<task.step, task.progress, task.total, task.result, task.error>>

\* C25: step, progress, total, result and error of a task change only in a
\* step of that task's own worker: never in a step of another worker, a
\* submit, a query or a cancel.
C25_FieldsWrittenByOwnWorker ==
    [][\A t \in DOMAIN TASKS :
          WorkerFields(TASKS'[t]) # WorkerFields(TASKS[t]) => pc'[t] # pc[t]]_vars

\* C25 witness: two tasks run at once, each with the progress its own worker
\* wrote, and one of them has a cancel request.
C25_Witness ==
    \E a, b \in DOMAIN TASKS :
        /\ a # b
        /\ InCollaborator(a) /\ InCollaborator(b)
        /\ TASKS[a].step = 2 /\ TASKS[b].step = 1
        /\ TASKS[a].total # TASKS[b].total
        /\ TASKS[b].status = "cancelled"

\* C30: a task is 'cancelled' only if a cancel request was made for its id.
C30_CancelledOnlyByRequest ==
    \A t \in DOMAIN TASKS :
        TASKS[t].status = "cancelled" => firstCancel[t] # "never"

\* C27: the brightness factors of the global shadow and highlight variants
\* are both 1.0 at opacity 0, the shadow factor is at most 1.0 and does not
\* grow with the opacity, the highlight factor is at least 1.0 and does not
\* shrink with it.
C27_FactorsMoveFromIdentity ==
    (call.fn = "blend_qr_contrast" /\ ret.done) =>
        /\ call.opacity = 0 =>
              /\ ret.value.shadow_factor = 100
              /\ ret.value.highlight_factor = 100
        /\ ret.value.shadow_factor <= 100
        /\ ret.value.highlight_factor >= 100
        /\ \A lower \in Opacities :
              lower <= call.opacity =>
                  /\ Max(10, ShadowFactor(lower)) >= ret.value.shadow_factor
                  /\ HighlightFactor(lower) <= ret.value.highlight_factor

\* C28: the brightness factor of a dark module is 0.35 lowered in proportion
\* to 1 - strength, so it is at most 0.35; the factor of a light module does
\* not shrink as strength grows; the dark factor is below 1.0 and below the
\* light factor.
C28_FactorOrdering ==
    (call.fn = "generate_art_qr" /\ ret.done /\ ~ret.value.raised) =>
        /\ DarkFactor(call.strength) <= 35
        /\ \A lower \in Strengths :
              lower <= call.strength =>
                  LightFactor(lower) <= LightFactor(call.strength)
        /\ DarkFactor(call.strength) < 100
        /\ DarkFactor(call.strength) < LightFactor(call.strength)

\* ---------------------------------------------------------------------
\* The model singleton ai_engine (ai_generator.py).  Worker threads and
\* request threads call ai_engine.generate(mode=...) with no lock; pipe and
\* current_mode are shared.  A loaded pipe is named by the mode it was
\* loaded for.
\* ---------------------------------------------------------------------

Modes == {"balanced", "eco"}

\* A thread calls ai_engine.generate, which calls self.load_model(mode).
CallGenerate(k, mode) ==
    /\ thr[k].line = "idle"
    /\ thr' = [thr EXCEPT ![k] = [line |-> "check", mode |-> mode]]
    /\ UNCHANGED <<taskVars, RESULT_CACHE, req, pipe, current_mode, call, ret>>

\* if self.pipe is not None and self.current_mode == mode: return
\* otherwise on to the unload when a pipe is loaded, or to the mode write.
CheckLoaded(k) ==
    /\ thr[k].line = "check"
    /\ thr' = [thr EXCEPT ![k].line =
                 IF pipe # None /\ current_mode = thr[k].mode THEN "loaded"
                 ELSE IF pipe # None THEN "unload"
                 ELSE "set_mode"]
    /\ UNCHANGED <<taskVars, RESULT_CACHE, req, pipe, current_mode, call, ret>>

\* del self.pipe; self.pipe = None
Unload(k) ==
    /\ thr[k].line = "unload"
    /\ pipe' = None
    /\ thr' = [thr EXCEPT ![k].line = "set_mode"]
    /\ UNCHANGED <<taskVars, RESULT_CACHE, req, current_mode, call, ret>>

\* self.current_mode = mode
SetMode(k) ==
    /\ thr[k].line = "set_mode"
    /\ current_mode' = thr[k].mode
    /\ thr' = [thr EXCEPT ![k].line = "load"]
    /\ UNCHANGED <<taskVars, RESULT_CACHE, req, pipe, call, ret>>

\* self.pipe = StableDiffusionControlNetPipeline.from_...(...)
LoadPipe(k) ==
    /\ thr[k].line = "load"
    /\ pipe' = thr[k].mode
    /\ thr' = [thr EXCEPT ![k].line = "configure"]
    /\ UNCHANGED <<taskVars, RESULT_CACHE, req, current_mode, call, ret>>

\* Loading the weights raises; the exception leaves generate.
LoadPipeRaises(k) ==
    /\ thr[k].line = "load"
    /\ thr' = [thr EXCEPT ![k] = [line |-> "idle"]]
    /\ UNCHANGED <<taskVars, RESULT_CACHE, req, pipe, current_mode, call, ret>>

\* The scheduler and the mode configuration, through self.pipe: an
\* AttributeError when another thread has unloaded it meanwhile.
Configure(k) ==
    /\ thr[k].line = "configure"
    /\ thr' = [thr EXCEPT ![k] =
                 IF pipe = None THEN [line |-> "idle"]
                 ELSE [@ EXCEPT !.line = "loaded"]]
    /\ UNCHANGED <<taskVars, RESULT_CACHE, req, pipe, current_mode, call, ret>>

\* output = self.pipe(...): the attribute is read and called; a TypeError
\* when it is None.  The pipeline then runs.
InvokePipe(k) ==
    /\ thr[k].line = "loaded"
    /\ thr' = [thr EXCEPT ![k] =
                 IF pipe = None THEN [line |-> "idle"]
                 ELSE [line |-> "running", mode |-> @.mode, using |-> pipe]]
    /\ UNCHANGED <<taskVars, RESULT_CACHE, req, pipe, current_mode, call, ret>>

\* The pipeline call finishes and generate returns the image.
PipeFinishes(k) ==
    /\ thr[k].line = "running"
    /\ thr' = [thr EXCEPT ![k] = [line |-> "idle"]]
    /\ UNCHANGED <<taskVars, RESULT_CACHE, req, pipe, current_mode, call, ret>>

EngineNext ==
    \/ \E k \in ThreadIds, mode \in Modes : CallGenerate(k, mode)
    \/ \E k \in ThreadIds : CheckLoaded(k)
    \/ \E k \in ThreadIds : Unload(k)
    \/ \E k \in ThreadIds : SetMode(k)
    \/ \E k \in ThreadIds : LoadPipe(k)
    \/ \E k \in ThreadIds : LoadPipeRaises(k)
    \/ \E k \in ThreadIds : Configure(k)
    \/ \E k \in ThreadIds : InvokePipe(k)
    \/ \E k \in ThreadIds : PipeFinishes(k)

EngineSpec == Init /\ [][EngineNext]_vars

\* C29: from the return of a thread's load_model(mode) to the end of its
\* pipeline call, pipe is loaded and current_mode is that thread's mode.
C29_PipeStableWhileUsed ==
    \A k \in ThreadIds :
        thr[k].line \in {"loaded", "running"} =>
            pipe # None /\ current_mode = thr[k].mode

====
